---- MODULE Spec2Model ----
(***************************************************************************)
(* Model of the settled-invoice notification pipeline                      *)
(* (src/unnamed/part_000): an async/auto task graph                        *)
(*   validate -> {balancedOpen, getNodes, getPayment, getTransfer}         *)
(*            -> details -> post -> quiz                                   *)
(* whose outcome is handed to returnResult({reject, resolve}, cbk).        *)
(* Every action is one turn of the JavaScript event loop: the invocation   *)
(* itself, or the callback of one collaborator (channel lookup, alias      *)
(* resolution, past-payment subscription event, composer, send, quiz).     *)
(***************************************************************************)
EXTENDS Integers, Sequences, FiniteSets, TLC

\* ------------------------------------------------------------------ bounds
\* longest invoice.payments list
MaxPayments == 2
\* longest list of controlled nodes
MaxNodes == 2
\* longest quiz answer list a composer returns (one more than maxQuizLength)
MaxQuizLen == 11

\* number of equally likely values of Math.random() that are told apart
RandomResolution == 12

\* ------------------------------------------------------- program constants
minQuizLength == 2
maxQuizLength == 10

\* Math.floor(Math.random() * n), Math.random() being u / RandomResolution
randomIndex(n, u) == (u * n) \div RandomResolution

\* ------------------------------------------------------------- value space
\* an optional value: <<>> is undefined, <<v>> is v
None == <<>>
Some(v) == <<v>>
IsSome(o) == o # <<>>

\* channel ids a payment can arrive through
Channels == {"61x1", "61x2"}
\* the receiving node's identity key and the key of another controlled node
ReceivingKey == "K"
Keys == {"K", "O"}
\* the label of the receiving node, with a markup character in it
FromLabels == {<<"a", "_", "1">>}

\* the characters of the class in the regular expression of escape
\* ("grave" stands for the grave accent)
EscapeClass ==
  {"_", "*", "[", "]", "(", ")", "~", "grave", ">", "#", "+", "-", "=", "|",
   "{", "}", ".", "!", "\\"}

RECURSIVE SeqsUpTo(_, _)
\* all sequences over S of length at most n
SeqsUpTo(S, n) ==
  IF n = 0 THEN {<<>>}
  ELSE LET shorter == SeqsUpTo(S, n - 1)
       IN shorter \cup {Append(s, x) : s \in {t \in shorter : Len(t) = n - 1}, x \in S}

\* ----------------------------------------------------------- pure helpers
RECURSIVE escape(_)
\* text.replace(<class of EscapeClass>, backslash + match) on a sequence of
\* characters: every character of the class gets one backslash before it
escape(text) ==
  IF text = <<>> THEN <<>>
  ELSE LET c == Head(text)
       IN (IF c \in EscapeClass THEN <<"\\", c>> ELSE <<c>>) \o escape(Tail(text))

\* uniq that keeps every element
uniqKeepsAll(arr) == arr

RECURSIVE uniq(_)
\* Array.from(new Set(arr)): first occurrences, in order
uniq(arr) ==
  IF arr = <<>> THEN <<>>
  ELSE LET init == uniq(SubSeq(arr, 1, Len(arr) - 1))
           last == arr[Len(arr)]
       IN IF \E i \in 1..Len(init) : init[i] = last THEN init ELSE Append(init, last)

\* the controlled nodes without the filter on the receiving key
otherNodesAll(nodes, key) == nodes

\* nodes.filter(n => n.public_key !== key)
RECURSIVE otherNodes(_, _)
otherNodes(nodes, key) ==
  IF nodes = <<>> THEN <<>>
  ELSE (IF Head(nodes) # key THEN <<Head(nodes)>> ELSE <<>>) \o otherNodes(Tail(nodes), key)

\* the map of quiz without its branch for index 0
randomizedAnswersNoReplace(quiz, correct) ==
  [k \in 1..Len(quiz) |-> IF k - 1 = correct THEN quiz[1] ELSE quiz[k]]

\* the answers of quiz: details.quiz.map((n, i) => ...) with answer = quiz[0]
\* and replace = quiz[correct]; indices are 0-based as in the source
randomizedAnswers(quiz, correct) ==
  [k \in 1..Len(quiz) |->
     LET i == k - 1
     IN IF i = correct THEN quiz[1]
        ELSE IF i = 0 THEN quiz[correct + 1]
        ELSE quiz[k]]

\* validate with the token of the lnd check copied from the key check
validateCopiedToken(a) ==
  IF a.from = <<>> THEN Some(<<400, "ExpectedFromNameToPostSettledInvoice">>)
  ELSE IF ~a.id THEN Some(<<400, "ExpectedUserIdNumberToPostSettledInvoice">>)
  ELSE IF a.invoice = None THEN Some(<<400, "ExpectedInvoiceToPostSettledInvoice">>)
  ELSE IF a.key = "" THEN Some(<<400, "ExpectedNodeIdentityKeyToPostSettledInvoice">>)
  ELSE IF ~a.lnd THEN Some(<<400, "ExpectedNodeIdentityKeyToPostSettledInvoice">>)
  ELSE IF a.nodes = None THEN Some(<<400, "ExpectedArrayOfNodesToPostSettledInvoice">>)
  ELSE IF ~a.quiz THEN Some(<<400, "ExpectedSendQuizFunctionToPostSettledInvoice">>)
  ELSE IF ~a.send THEN Some(<<400, "ExpectedSendFunctionToPostSettledInvoice">>)
  ELSE None

\* the reason tokens of validate, in the order of its checks
validate(a) ==
  IF a.from = <<>> THEN Some(<<400, "ExpectedFromNameToPostSettledInvoice">>)
  ELSE IF ~a.id THEN Some(<<400, "ExpectedUserIdNumberToPostSettledInvoice">>)
  ELSE IF a.invoice = None THEN Some(<<400, "ExpectedInvoiceToPostSettledInvoice">>)
  ELSE IF a.key = "" THEN Some(<<400, "ExpectedNodeIdentityKeyToPostSettledInvoice">>)
  ELSE IF ~a.lnd THEN Some(<<400, "ExpectedLndObjectToPostSettledInvoice">>)
  ELSE IF a.nodes = None THEN Some(<<400, "ExpectedArrayOfNodesToPostSettledInvoice">>)
  ELSE IF ~a.quiz THEN Some(<<400, "ExpectedSendQuizFunctionToPostSettledInvoice">>)
  ELSE IF ~a.send THEN Some(<<400, "ExpectedSendFunctionToPostSettledInvoice">>)
  ELSE None

\* ------------------------------------------------------------------- state
VARIABLES
  args,          \* the arguments of the invocation (read-only)
  status,        \* auto: each task is waiting, running, done or failed
  results,       \* auto: the results object, one slot per task
  writes,        \* auto: how often each task's callback delivered a result
  hasError,      \* auto: a task has failed
  finalCalls,    \* auto: how often its final callback has been called
  outcomes,      \* the resolve / reject calls made through returnResult
  lookup,        \* getNodes: per distinct in_channel, the pending collaborator
  mapResults,    \* getNodes: asyncMap's result array
  mapCalled,     \* getNodes: asyncMap's final callback has been called
  psub,          \* getPayment: the subscription is none, open or closed
  tsub,          \* getTransfer: per other node, open or closed
  testResult,    \* getTransfer: asyncDetect's detected item
  completed,     \* getTransfer: eachOf's count of iteratee callbacks
  detectCalled,  \* getTransfer: asyncDetect's final callback has been called
  sendState,     \* post: send is none, inflight, ok or failed
  quizState,     \* quiz: quiz is none, inflight, ok or failed
  calls          \* the collaborator calls made so far, per collaborator (the
                 \* peers whose alias was asked for as a set)

vars ==
  <<args, status, results, writes, hasError, finalCalls, outcomes, lookup, mapResults,
    mapCalled, psub, tsub, testResult, completed, detectCalled, sendState,
    quizState, calls>>

Tasks ==
  {"validate", "balancedOpen", "getNodes", "getPayment", "getTransfer",
   "details", "post", "quiz"}

\* the order of the keys of the object handed to asyncAuto
TaskOrder ==
  <<"validate", "balancedOpen", "getNodes", "getPayment", "getTransfer",
    "details", "post", "quiz">>

Checks == {"balancedOpen", "getNodes", "getPayment", "getTransfer"}

\* the dependency lists with quiz waiting for details alone
DepsQuizNoPost(t) ==
  CASE t = "validate" -> {}
    [] t \in Checks -> {"validate"}
    [] t = "details" -> Checks
    [] t = "post" -> {"details", "getPayment"}
    [] t = "quiz" -> {"details"}

\* the dependency lists with details not waiting for getNodes
DepsDetailsEarly(t) ==
  CASE t = "validate" -> {}
    [] t \in Checks -> {"validate"}
    [] t = "details" -> Checks \ {"getNodes"}
    [] t = "post" -> {"details", "getPayment"}
    [] t = "quiz" -> {"details", "post"}

\* the dependency lists with details not waiting for getPayment
DepsDetailsNoPayment(t) ==
  CASE t = "validate" -> {}
    [] t \in Checks -> {"validate"}
    [] t = "details" -> Checks \ {"getPayment"}
    [] t = "post" -> {"details", "getPayment"}
    [] t = "quiz" -> {"details", "post"}

\* the dependency lists of the tasks
Deps(t) ==
  CASE t = "validate" -> {}
    [] t \in Checks -> {"validate"}
    [] t = "details" -> Checks
    [] t = "post" -> {"details", "getPayment"}
    [] t = "quiz" -> {"details", "post"}

\* the invoice, the controlled nodes' keys and the in_channel ids of a valid call
invoice == args.invoice[1]
nodes == args.nodes[1]
inChannels == uniq(invoice.payments)

\* the program state as one value; rnd is what the next Math.random() yields
Cur(u) ==
  [status |-> status, results |-> results, writes |-> writes,
   hasError |-> hasError, finalCalls |-> finalCalls, outcomes |-> outcomes,
   lookup |-> lookup,
   mapResults |-> mapResults, mapCalled |-> mapCalled, psub |-> psub,
   tsub |-> tsub, testResult |-> testResult, completed |-> completed,
   detectCalled |-> detectCalled, sendState |-> sendState,
   quizState |-> quizState, calls |-> calls, rnd |-> u]

Commit(s) ==
  /\ status' = s.status
  /\ results' = s.results
  /\ writes' = s.writes
  /\ hasError' = s.hasError
  /\ finalCalls' = s.finalCalls
  /\ outcomes' = s.outcomes
  /\ lookup' = s.lookup
  /\ mapResults' = s.mapResults
  /\ mapCalled' = s.mapCalled
  /\ psub' = s.psub
  /\ tsub' = s.tsub
  /\ testResult' = s.testResult
  /\ completed' = s.completed
  /\ detectCalled' = s.detectCalled
  /\ sendState' = s.sendState
  /\ quizState' = s.quizState
  /\ calls' = s.calls
  /\ UNCHANGED args

\* ------------------------------------------------------------- async/auto
\* the final callback without once: every call reaches resolve or reject
SettleNotOnce(s, err) ==
  [s EXCEPT !.finalCalls = @ + 1,
            !.outcomes =
               Append(@, IF IsSome(err) THEN <<"reject", err[1]>> ELSE <<"resolve">>)]

\* auto's callback is once(callback) and is returnResult({reject, resolve}):
\* the first call settles the promise, later calls are dropped
Settle(s, err) ==
  IF s.finalCalls > 0 THEN [s EXCEPT !.finalCalls = @ + 1]
  ELSE [s EXCEPT !.finalCalls = @ + 1,
                 !.outcomes =
                    Append(@, IF IsSome(err) THEN <<"reject", err[1]>> ELSE <<"resolve">>)]

RunningTasks(s) == Cardinality({t \in Tasks : s.status[t] = "running"})

\* processQueue with nothing ready: the final callback once nothing runs
Drain(s) == IF RunningTasks(s) = 0 THEN Settle(s, None) ELSE s

\* taskCallback(err) that reports the error of a step after validate and
\* completes the task all the same
TaskFailContinues(s, t, err) ==
  IF t = "validate"
    THEN Settle([s EXCEPT !.status[t] = "failed", !.writes[t] = @ + 1, !.hasError = TRUE],
                Some(err))
  ELSE Settle([s EXCEPT !.status[t] = "done", !.writes[t] = @ + 1], Some(err))

\* taskCallback(err): the error goes to the final callback, nothing starts after
TaskFail(s, t, err) ==
  Settle([s EXCEPT !.status[t] = "failed", !.writes[t] = @ + 1, !.hasError = TRUE],
         Some(err))

\* taskCallback(null, res): results[key] = res
WriteOk(s, t, res) ==
  [s EXCEPT !.status[t] = "done", !.results[t] = res, !.writes[t] = @ + 1]

\* ------------------------------------------------------------ task bodies
\* balancedOpenRequest({confirmed_at, is_push, payments, received_mtokens}):
\* a pure function of the invoice
balancedOpenRequest(inv) == IF inv.proposal THEN Some("proposal") ELSE None

balancedOpen(s) ==
  IF ~invoice.is_confirmed THEN WriteOk(s, "balancedOpen", None)
  ELSE WriteOk(s, "balancedOpen", balancedOpenRequest(invoice))

\* asyncMap over the distinct in_channel ids: one getChannel call per id
getNodes(s) ==
  IF inChannels = <<>> THEN WriteOk(s, "getNodes", Some(<<>>))
  ELSE [s EXCEPT !.status["getNodes"] = "running",
                 !.lookup = [i \in 1..Len(inChannels) |-> "getChannel"],
                 !.mapResults = [i \in 1..Len(inChannels) |-> None],
                 !.calls.getChannel = @ \o inChannels]

getPayment(s) ==
  IF ~invoice.is_confirmed THEN WriteOk(s, "getPayment", None)
  ELSE [s EXCEPT !.status["getPayment"] = "running",
                 !.psub = "open",
                 !.calls.subscribe = Append(@, [by |-> "getPayment", node |-> "lnd"])]

\* asyncDetect over the other nodes: one subscription per other node
getTransfer(s) ==
  IF ~invoice.is_confirmed THEN WriteOk(s, "getTransfer", None)
  ELSE LET others == otherNodes(nodes, args.key)
       IN IF others = <<>> THEN WriteOk(s, "getTransfer", None)
          ELSE [s EXCEPT !.status["getTransfer"] = "running",
                         !.tsub = [j \in 1..Len(others) |-> "open"],
                         !.calls.subscribe =
                            @ \o [j \in 1..Len(others) |->
                                    [by |-> "getTransfer", node |-> others[j]]]]

\* the call of one of the three composers
Compose(s, composer, facts) ==
  [s EXCEPT !.status["details"] = "running",
            !.calls.compose = Append(@, [composer |-> composer, facts |-> facts])]

\* details without the test for an unconfirmed invoice
detailsNoConfirmTest(s) ==
  IF IsSome(s.results["getTransfer"]) THEN WriteOk(s, "details", None)
  ELSE IF IsSome(s.results["balancedOpen"])
    THEN Compose(s, "getBalancedOpenMessage", s.results["balancedOpen"])
  ELSE IF IsSome(s.results["getPayment"])
    THEN Compose(s, "getRebalanceMessage", s.results["getPayment"])
  ELSE Compose(s, "getReceivedMessage", s.results["getNodes"])

\* details with the rebalance test ahead of the balanced open test
detailsRebalanceFirst(s) ==
  IF ~invoice.is_confirmed THEN WriteOk(s, "details", None)
  ELSE IF IsSome(s.results["getTransfer"]) THEN WriteOk(s, "details", None)
  ELSE IF IsSome(s.results["getPayment"])
    THEN Compose(s, "getRebalanceMessage", s.results["getPayment"])
  ELSE IF IsSome(s.results["balancedOpen"])
    THEN Compose(s, "getBalancedOpenMessage", s.results["balancedOpen"])
  ELSE Compose(s, "getReceivedMessage", s.results["getNodes"])

\* details with the transfer test after the balanced open test
detailsTransferLate(s) ==
  IF ~invoice.is_confirmed THEN WriteOk(s, "details", None)
  ELSE IF IsSome(s.results["balancedOpen"])
    THEN Compose(s, "getBalancedOpenMessage", s.results["balancedOpen"])
  ELSE IF IsSome(s.results["getTransfer"]) THEN WriteOk(s, "details", None)
  ELSE IF IsSome(s.results["getPayment"])
    THEN Compose(s, "getRebalanceMessage", s.results["getPayment"])
  ELSE Compose(s, "getReceivedMessage", s.results["getNodes"])

details(s) ==
  IF ~invoice.is_confirmed THEN WriteOk(s, "details", None)
  ELSE IF IsSome(s.results["getTransfer"]) THEN WriteOk(s, "details", None)
  ELSE IF IsSome(s.results["balancedOpen"])
    THEN Compose(s, "getBalancedOpenMessage", s.results["balancedOpen"])
  ELSE IF IsSome(s.results["getPayment"])
    THEN Compose(s, "getRebalanceMessage", s.results["getPayment"])
  ELSE Compose(s, "getReceivedMessage", s.results["getNodes"])

\* post escaping the whole text
postTextEscapesAll(d) ==
  LET receivedOnNode == IF Len(nodes) > 1 THEN <<" ", "-", " ">> \o args.from ELSE <<>>
      text == d.icon \o <<" ">> \o d.message
  IN escape(text \o receivedOnNode)

\* the text handed to send
postText(d) ==
  LET receivedOnNode == IF Len(nodes) > 1 THEN <<" ", "-", " ">> \o args.from ELSE <<>>
      text == d.icon \o <<" ">> \o d.message
  IN text \o escape(receivedOnNode)

\* the body of post up to its await
post(s) ==
  IF ~IsSome(s.results["details"]) THEN [s EXCEPT !.status["post"] = "running"]
  ELSE [s EXCEPT !.status["post"] = "running",
                 !.sendState = "inflight",
                 !.calls.send = Append(@, postText(s.results["details"][1]))]

\* the quiz call itself
SendQuiz(s, d) ==
  LET correct == randomIndex(Len(d.quiz[1]), s.rnd)
  IN [s EXCEPT !.status["quiz"] = "running",
               !.quizState = "inflight",
               !.calls.quiz =
                  Append(@, [answers |-> randomizedAnswers(d.quiz[1], correct),
                             correct |-> correct,
                             question |-> d.title])]

\* quiz without the test for too many answers
quizNoMax(s) ==
  LET d == s.results["details"]
  IN IF ~IsSome(d) \/ ~IsSome(d[1].quiz) \/ Len(d[1].quiz[1]) < minQuizLength
       THEN [s EXCEPT !.status["quiz"] = "running"]
     ELSE SendQuiz(s, d[1])

\* quiz without the test for too few answers
quizNoMin(s) ==
  LET d == s.results["details"]
  IN IF ~IsSome(d) \/ ~IsSome(d[1].quiz)
       THEN [s EXCEPT !.status["quiz"] = "running"]
     ELSE IF Len(d[1].quiz[1]) > maxQuizLength
       THEN [s EXCEPT !.status["quiz"] = "running"]
     ELSE SendQuiz(s, d[1])

\* the body of quiz up to its await
quiz(s) ==
  LET d == s.results["details"]
  IN IF ~IsSome(d) \/ ~IsSome(d[1].quiz) \/ Len(d[1].quiz[1]) < minQuizLength
       THEN [s EXCEPT !.status["quiz"] = "running"]
     ELSE IF Len(d[1].quiz[1]) > maxQuizLength
       THEN [s EXCEPT !.status["quiz"] = "running"]
     ELSE SendQuiz(s, d[1])

\* runTask: nothing starts once a task has failed
StartTask(s, t) ==
  CASE t = "validate" ->
         LET err == validate(args)
         IN IF IsSome(err) THEN TaskFail(s, "validate", err[1])
            ELSE WriteOk(s, "validate", None)
    [] t = "balancedOpen" -> balancedOpen(s)
    [] t = "getNodes" -> getNodes(s)
    [] t = "getPayment" -> getPayment(s)
    [] t = "getTransfer" -> getTransfer(s)
    [] t = "details" -> details(s)
    [] t = "post" -> post(s)
    [] t = "quiz" -> quiz(s)

\* the tasks whose dependencies have all delivered a result
Ready(s) ==
  {t \in Tasks : s.status[t] = "waiting" /\ \A d \in Deps(t) : s.status[d] = "done"}

RECURSIVE Cascade(_)
\* taskComplete and processQueue: start every ready task, in key order, until
\* none is ready; a task that completes within its own call readies the next
Cascade(s) ==
  IF s.hasError THEN s
  ELSE IF Ready(s) = {} THEN Drain(s)
  ELSE LET k == CHOOSE i \in 1..Len(TaskOrder) :
                  /\ TaskOrder[i] \in Ready(s)
                  /\ \A j \in 1..(i - 1) : TaskOrder[j] \notin Ready(s)
       IN Cascade(StartTask(s, TaskOrder[k]))

\* a running task calls back with a result
TaskOk(s, t, res) ==
  IF s.hasError THEN Drain(WriteOk(s, t, res)) ELSE Cascade(WriteOk(s, t, res))

\* ----------------------------------------------------------- input spaces
Invoices ==
  {i \in [is_confirmed : BOOLEAN,
          payments : SeqsUpTo(Channels, MaxPayments),
          proposal : BOOLEAN] :
     \* a balanced open proposal is a confirmed push payment
     i.proposal => i.is_confirmed}

ValidArgs ==
  [from : FromLabels, id : {TRUE}, invoice : {Some(i) : i \in Invoices},
   key : {ReceivingKey}, lnd : {TRUE},
   nodes : {Some(n) : n \in SeqsUpTo(Keys, MaxNodes)},
   quiz : {TRUE}, send : {TRUE}]

Fields == {"from", "id", "invoice", "key", "lnd", "nodes", "quiz", "send"}

\* a call of a confirmed invoice with every argument given
FullArgs ==
  [from |-> <<"a", "_", "1">>, id |-> TRUE,
   invoice |-> Some([is_confirmed |-> TRUE, payments |-> <<"61x1">>, proposal |-> FALSE]),
   key |-> ReceivingKey, lnd |-> TRUE, nodes |-> Some(<<"K", "O">>),
   quiz |-> TRUE, send |-> TRUE]

\* the arguments a with the fields of M left out (nodes: not an array)
Blank(a, M) ==
  [from |-> IF "from" \in M THEN <<>> ELSE a.from,
   id |-> IF "id" \in M THEN FALSE ELSE a.id,
   invoice |-> IF "invoice" \in M THEN None ELSE a.invoice,
   key |-> IF "key" \in M THEN "" ELSE a.key,
   lnd |-> IF "lnd" \in M THEN FALSE ELSE a.lnd,
   nodes |-> IF "nodes" \in M THEN None ELSE a.nodes,
   quiz |-> IF "quiz" \in M THEN FALSE ELSE a.quiz,
   send |-> IF "send" \in M THEN FALSE ELSE a.send]

InvalidArgs == {Blank(FullArgs, M) : M \in (SUBSET Fields) \ {{}}}

\* what a composer can return: {icon, message, title, quiz}
Answers == <<"a0", "a1", "a2", "a3">>
QuizList(n) == [k \in 1..n |-> Answers[((k - 1) % Len(Answers)) + 1]]

IconOf(composer) ==
  CASE composer = "getBalancedOpenMessage" -> <<"B">>
    [] composer = "getRebalanceMessage" -> <<"R">>
    [] composer = "getReceivedMessage" -> <<"V">>

Descriptors(composer) ==
  [icon : {IconOf(composer)}, message : {<<"m", ".">>},
   title : {None, Some("title")},
   quiz : {None} \cup {Some(QuizList(n)) : n \in 0..MaxQuizLen}]

\* --------------------------------------------------------------- behaviour
Init ==
  /\ args \in ValidArgs \cup InvalidArgs
  /\ status = [t \in Tasks |-> "waiting"]
  /\ results = [t \in Tasks |-> None]
  /\ writes = [t \in Tasks |-> 0]
  /\ hasError = FALSE
  /\ finalCalls = 0
  /\ outcomes = <<>>
  /\ lookup = <<>>
  /\ mapResults = <<>>
  /\ mapCalled = FALSE
  /\ psub = "none"
  /\ tsub = <<>>
  /\ testResult = None
  /\ completed = 0
  /\ detectCalled = FALSE
  /\ sendState = "none"
  /\ quizState = "none"
  /\ calls = [getChannel |-> <<>>, getNodeAlias |-> {}, subscribe |-> <<>>,
              compose |-> <<>>, send |-> <<>>, quiz |-> <<>>]

\* module.exports: asyncAuto runs validate and everything that completes or
\* is issued within the same turn
Invoke ==
  /\ status["validate"] = "waiting"
  /\ Commit(Cascade(Cur(0)))

\* asyncMap's iteratee callback with the entry of channel i
MapItemDone(s, i, entry) ==
  LET s1 == [s EXCEPT !.lookup[i] = "done", !.mapResults[i] = Some(entry)]
  IN IF (\A j \in 1..Len(s1.lookup) : s1.lookup[j] = "done") /\ ~s1.mapCalled
       THEN TaskOk([s1 EXCEPT !.mapCalled = TRUE], "getNodes",
                   Some([j \in 1..Len(s1.mapResults) |-> s1.mapResults[j][1]]))
     ELSE s1

\* asyncMap's iteratee callback with an error: the map's callback gets it once
MapItemFail(s, i, err) ==
  LET s1 == [s EXCEPT !.lookup[i] = "failed"]
  IN IF s1.mapCalled THEN s1
     ELSE TaskFail([s1 EXCEPT !.mapCalled = TRUE], "getNodes", err)

\* getChannel calls back: an error falls back to the id, a channel asks for
\* the alias of the peer
ChannelReturns(i, ok) ==
  /\ i \in DOMAIN lookup
  /\ lookup[i] = "getChannel"
  /\ LET s == Cur(0)
         id == inChannels[i]
     IN IF ~ok
          THEN Commit(MapItemDone(s, i, [id |-> <<"channel", id>>, alias |-> <<"channel", id>>]))
        ELSE Commit([s EXCEPT !.lookup[i] = "getNodeAlias",
                              !.calls.getNodeAlias = @ \cup {<<"peer", id>>}])

\* getNodeAlias calls back into asyncMap's callback
AliasReturns(i, ok) ==
  /\ i \in DOMAIN lookup
  /\ lookup[i] = "getNodeAlias"
  /\ LET s == Cur(0)
         id == inChannels[i]
     IN IF ok
          THEN Commit(MapItemDone(s, i, [id |-> <<"peer", id>>, alias |-> <<"alias", id>>]))
        ELSE Commit(MapItemFail(s, i, <<503, "getNodeAliasError">>))

PaymentEvents == {"confirmed", "error", "failed"}

\* getPayment's subscription handing an error or failed event on as an error
PaymentEventPropagates(ev) ==
  /\ psub = "open"
  /\ LET s == [Cur(0) EXCEPT !.psub = "closed"]
     IN IF ev = "confirmed"
          THEN Commit(TaskOk(s, "getPayment", Some("payment")))
        ELSE Commit(TaskFail(s, "getPayment", <<503, "pastPaymentError">>))

\* the one terminal event of getPayment's subscription
PaymentEvent(ev) ==
  /\ psub = "open"
  /\ LET s == [Cur(0) EXCEPT !.psub = "closed"]
     IN Commit(TaskOk(s, "getPayment",
                      IF ev = "confirmed" THEN Some("payment") ELSE None))

\* getTransfer's subscription without handlers for error and failed
TransferEventIgnoresFailure(j, ev) ==
  /\ j \in DOMAIN tsub
  /\ tsub[j] = "open"
  /\ LET s == [Cur(0) EXCEPT !.tsub[j] = "closed"]
         others == otherNodes(nodes, args.key)
     IN IF ev = "confirmed" /\ ~IsSome(s.testResult)
          THEN LET s1 == [s EXCEPT !.testResult = Some(others[j]), !.completed = @ + 1]
               IN IF s1.detectCalled THEN Commit(s1)
                  ELSE Commit(TaskOk([s1 EXCEPT !.detectCalled = TRUE],
                                     "getTransfer", s1.testResult))
        ELSE Commit(s)

\* the one terminal event of the subscription on other node j
TransferEvent(j, ev) ==
  /\ j \in DOMAIN tsub
  /\ tsub[j] = "open"
  /\ LET s == [Cur(0) EXCEPT !.tsub[j] = "closed"]
         others == otherNodes(nodes, args.key)
     IN IF ev = "confirmed" /\ ~IsSome(s.testResult)
          THEN \* testResult = item, callback(null, breakLoop); eachOf counts it
               LET s1 == [s EXCEPT !.testResult = Some(others[j]), !.completed = @ + 1]
               IN IF s1.detectCalled THEN Commit(s1)
                  ELSE Commit(TaskOk([s1 EXCEPT !.detectCalled = TRUE],
                                     "getTransfer", s1.testResult))
        ELSE \* callback(): ++completed === length
             LET s1 == [s EXCEPT !.completed = @ + 1]
             IN IF s1.completed = Len(others) /\ ~s1.detectCalled
                  THEN Commit(TaskOk([s1 EXCEPT !.detectCalled = TRUE],
                                     "getTransfer", s1.testResult))
                ELSE Commit(s1)

\* the invoked composer calls back
ComposerReturns(ok) ==
  /\ status["details"] = "running"
  /\ LET s == Cur(0)
         composer == calls.compose[Len(calls.compose)].composer
     IN IF ok
          THEN \E d \in Descriptors(composer) : Commit(TaskOk(s, "details", Some(d)))
        ELSE Commit(TaskFail(s, "details", <<503, "composerError">>))

\* post returned without a send
PostReturns ==
  /\ status["post"] = "running"
  /\ sendState = "none"
  /\ Commit(TaskOk(Cur(0), "post", None))

\* post catching the rejection of send and returning nothing
SendReturnsSwallows(ok) ==
  /\ status["post"] = "running"
  /\ sendState = "inflight"
  /\ IF ok
       THEN \E u \in 0..(RandomResolution - 1) :
              Commit(TaskOk([Cur(u) EXCEPT !.sendState = "ok"], "post", Some("message")))
     ELSE \E u \in 0..(RandomResolution - 1) :
              Commit(TaskOk([Cur(u) EXCEPT !.sendState = "failed"], "post", None))

\* the promise of send settles; the quiz task starts in the same turn
SendReturns(ok) ==
  /\ status["post"] = "running"
  /\ sendState = "inflight"
  /\ IF ok
       THEN \E u \in 0..(RandomResolution - 1) :
              Commit(TaskOk([Cur(u) EXCEPT !.sendState = "ok"], "post", Some("message")))
     ELSE Commit(TaskFail([Cur(0) EXCEPT !.sendState = "failed"], "post",
                          <<503, "sendError">>))

\* quiz returned without a quiz call
QuizReturns ==
  /\ status["quiz"] = "running"
  /\ quizState = "none"
  /\ Commit(TaskOk(Cur(0), "quiz", None))

\* the promise of the quiz call settles
QuizSendReturns(ok) ==
  /\ status["quiz"] = "running"
  /\ quizState = "inflight"
  /\ IF ok
       THEN Commit(TaskOk([Cur(0) EXCEPT !.quizState = "ok"], "quiz", Some("poll")))
     ELSE Commit(TaskFail([Cur(0) EXCEPT !.quizState = "failed"], "quiz",
                          <<503, "quizError">>))

Next ==
  \/ Invoke
  \/ \E i \in 1..Cardinality(Channels), ok \in BOOLEAN : ChannelReturns(i, ok)
  \/ \E i \in 1..Cardinality(Channels), ok \in BOOLEAN : AliasReturns(i, ok)
  \/ \E ev \in PaymentEvents : PaymentEvent(ev)
  \/ \E j \in 1..MaxNodes, ev \in PaymentEvents : TransferEvent(j, ev)
  \/ \E ok \in BOOLEAN : ComposerReturns(ok)
  \/ PostReturns
  \/ \E ok \in BOOLEAN : SendReturns(ok)
  \/ QuizReturns
  \/ \E ok \in BOOLEAN : QuizSendReturns(ok)

Spec == Init /\ [][Next]_vars

\* ================================================================== claims
\* shorthands over the state of a run
FieldOrder == <<"from", "id", "invoice", "key", "lnd", "nodes", "quiz", "send">>

\* the required arguments that a leaves empty
MissingFields(a) ==
  {f \in Fields :
     \/ f = "from" /\ a.from = <<>>
     \/ f = "id" /\ ~a.id
     \/ f = "invoice" /\ a.invoice = None
     \/ f = "key" /\ a.key = ""
     \/ f = "lnd" /\ ~a.lnd
     \/ f = "nodes" /\ a.nodes = None
     \/ f = "quiz" /\ ~a.quiz
     \/ f = "send" /\ ~a.send}

\* the first missing field in the order of the checks
FirstMissing(a) ==
  FieldOrder[CHOOSE i \in 1..Len(FieldOrder) :
               /\ FieldOrder[i] \in MissingFields(a)
               /\ \A j \in 1..(i - 1) : FieldOrder[j] \notin MissingFields(a)]

Invoked == status["validate"] # "waiting"
\* an invocation whose arguments passed validate
ValidRun == status["validate"] = "done"
Started(t) == status[t] # "waiting"
Rejected == outcomes # <<>> /\ outcomes[1][1] = "reject"
Resolved == outcomes # <<>> /\ outcomes[1][1] = "resolve"
Descriptor == results["details"][1]
HasDescriptor == IsSome(results["details"])
Composers == [k \in 1..Len(calls.compose) |-> calls.compose[k].composer]
NoNetworkCalls ==
  calls.getChannel = <<>> /\ calls.getNodeAlias = {} /\ calls.subscribe = <<>>
NoDispatchCalls == calls.send = <<>> /\ calls.quiz = <<>>

\* ---------------------------------------------------------------------- C1
\* C1: for a confirmed invoice, once the details step has run, the composer
\* it invoked is the one the precedence Transfer > BalancedOpen > Rebalance >
\* Received picks from the probe outcomes, whatever order the four checks
\* completed in: none for a transfer, else the balanced open composer when a
\* proposal is present (also when the past-payment probe confirmed, and then
\* never the rebalance composer), else the rebalance composer when the
\* past-payment probe confirmed, else the received composer.
C1_Precedence ==
  (ValidRun /\ invoice.is_confirmed /\ Started("details")) =>
    IF IsSome(testResult) THEN Composers = <<>>
    ELSE IF invoice.proposal THEN Composers = <<"getBalancedOpenMessage">>
    ELSE IF IsSome(results["getPayment"]) THEN Composers = <<"getRebalanceMessage">>
    ELSE Composers = <<"getReceivedMessage">>

\* a balanced open proposal and a confirmed past payment together, composed
\* as a balanced open
C1_Witness ==
  /\ ValidRun
  /\ invoice.proposal
  /\ IsSome(results["getPayment"])
  /\ ~IsSome(testResult)
  /\ Composers = <<"getBalancedOpenMessage">>

\* ---------------------------------------------------------------------- C2
\* C2: once a subscription on another controlled node has confirmed (a
\* transfer is detected), no composer has been or is ever invoked and neither
\* send nor quiz is ever called, whatever the other checks found.
C2_TransferSilent ==
  (ValidRun /\ IsSome(testResult)) =>
    calls.compose = <<>> /\ NoDispatchCalls

\* a run with a transfer, a proposal and a confirmed past payment that has
\* resolved
C2_Witness ==
  /\ ValidRun
  /\ IsSome(testResult)
  /\ invoice.proposal
  /\ IsSome(results["getPayment"])
  /\ status["quiz"] = "done"
  /\ Resolved

\* ---------------------------------------------------------------------- C3
\* C3: when a required argument is missing, the invocation rejects with
\* (400, reason), the reason is given for no other field (calls that differ in
\* their first missing field get different reasons), and the run makes no
\* channel lookup, alias resolution, subscription, composer, send or quiz call
\* and starts no other task.
C3_ValidationRejects ==
  (Invoked /\ MissingFields(args) # {}) =>
    /\ Len(outcomes) = 1
    /\ Rejected
    /\ outcomes[1][2][1] = 400
    /\ \A b \in InvalidArgs :
         (validate(b) = Some(outcomes[1][2])) <=> (FirstMissing(b) = FirstMissing(args))
    /\ NoNetworkCalls /\ calls.compose = <<>> /\ NoDispatchCalls
    /\ \A t \in Tasks \ {"validate"} : status[t] = "waiting"

\* a rejected call that misses lnd (and more)
C3_Witness ==
  /\ Invoked
  /\ FirstMissing(args) = "lnd"
  /\ Cardinality(MissingFields(args)) > 1
  /\ Rejected

\* ---------------------------------------------------------------------- C4
\* a quiz list the quiz step accepts
QuizInRange(d) ==
  IsSome(d.quiz) /\ Len(d.quiz[1]) >= 2 /\ Len(d.quiz[1]) <= 10

\* C4: send and quiz are each called at most once; a quiz call has been made
\* only if the one send call of the run has completed successfully; and when
\* the descriptor carries a title and a quiz list of 2 to 10 answers, the run
\* makes exactly one send call and, once that send has succeeded, exactly
\* one quiz call, whose answers are as many as the descriptor's quiz list.
C4_QuizAfterText ==
  ValidRun =>
    /\ Len(calls.send) <= 1 /\ Len(calls.quiz) <= 1
    /\ calls.quiz # <<>> => (sendState = "ok" /\ Len(calls.send) = 1)
    /\ (HasDescriptor /\ IsSome(Descriptor.title) /\ QuizInRange(Descriptor)) =>
         /\ Len(calls.send) = 1
         /\ sendState \in {"inflight", "failed"} => calls.quiz = <<>>
         /\ sendState = "ok" =>
              /\ Len(calls.quiz) = 1
              /\ Len(calls.quiz[1].answers) = Len(Descriptor.quiz[1])

\* a resolved run whose descriptor has a title and four answers
C4_Witness ==
  /\ ValidRun /\ HasDescriptor
  /\ IsSome(Descriptor.title)
  /\ IsSome(Descriptor.quiz) /\ Len(Descriptor.quiz[1]) = 4
  /\ Len(calls.send) = 1 /\ Len(calls.quiz) = 1
  /\ Len(calls.quiz[1].answers) = 4
  /\ Resolved

\* ---------------------------------------------------------------------- C5
\* C5: when a descriptor exists and its quiz list is absent, shorter than 2
\* or longer than 10, quiz is never called, send is called exactly once, and
\* the run ends without error: it rejects only if that send call itself
\* fails, and resolves once the quiz step has returned.
C5_QuizSuppressed ==
  (ValidRun /\ HasDescriptor /\ ~QuizInRange(Descriptor)) =>
    /\ calls.quiz = <<>>
    /\ Len(calls.send) = 1
    /\ Rejected => sendState = "failed"
    /\ sendState = "ok" => status["quiz"] \in {"running", "done"}
    /\ status["quiz"] = "done" => Resolved

\* a resolved run whose descriptor has eleven answers
C5_Witness ==
  /\ ValidRun /\ HasDescriptor
  /\ IsSome(Descriptor.quiz) /\ Len(Descriptor.quiz[1]) = 11
  /\ calls.quiz = <<>>
  /\ Len(calls.send) = 1
  /\ Resolved

Occurrences(q, v) == Cardinality({k \in 1..Len(q) : q[k] = v})

\* C7: the answers handed to quiz are the descriptor's list with positions 0
\* and c transposed, c being the reported correct index: c is an index of the
\* list, the value that was at 0 is at c, the value that was at c is at 0,
\* every other position keeps its value, and every value occurs as often as
\* before.
C7_Transposition ==
  (ValidRun /\ calls.quiz # <<>>) =>
    LET original == Descriptor.quiz[1]
        answers == calls.quiz[1].answers
        c == calls.quiz[1].correct
        n == Len(original)
    IN /\ n >= 2 /\ n <= 10
       /\ c \in 0..(n - 1)
       /\ Len(answers) = n
       /\ answers[c + 1] = original[1]
       /\ answers[1] = original[c + 1]
       /\ \A k \in 1..n : (k # 1 /\ k # c + 1) => answers[k] = original[k]
       /\ \A k \in 1..n : Occurrences(answers, original[k]) = Occurrences(original, original[k])

\* ten answers with the correct one moved to the last position
C7_Witness ==
  /\ ValidRun /\ Len(calls.quiz) = 1
  /\ Len(Descriptor.quiz[1]) = 10
  /\ calls.quiz[1].correct = 9
  /\ calls.quiz[1].answers[10] = Descriptor.quiz[1][1]
  /\ calls.quiz[1].answers[1] = Descriptor.quiz[1][10]
  /\ calls.quiz[1].answers[1] # Descriptor.quiz[1][1]

\* ---------------------------------------------------------------------- C8
\* the reserved markup characters ("grave" stands for the grave accent)
ReservedMarkup ==
  {"_", "*", "[", "]", "(", ")", "~", "grave", ">", "#", "+", "-", "=", "|",
   "{", "}", ".", "!", "\\"}

PlainChars == {"a", "n", "1", " ", "m", "B", "R", "V"}

\* the number of reserved characters among the first k of t
ReservedUpTo(t, k) == Cardinality({j \in 1..k : t[j] \in ReservedMarkup})

\* o is t with one backslash before every reserved character and nothing
\* else changed
IsEscaped(o, t) ==
  /\ Len(o) = Len(t) + ReservedUpTo(t, Len(t))
  /\ \A k \in 1..Len(t) :
       /\ o[k + ReservedUpTo(t, k)] = t[k]
       /\ t[k] \in ReservedMarkup => o[k + ReservedUpTo(t, k) - 1] = "\\"

\* C8: the text handed to send is icon, a space and the message, unchanged,
\* followed by a suffix; the suffix is empty when nodes has at most one entry
\* and is the escaped " - " + from otherwise, where escaping puts one
\* backslash before every reserved character and changes nothing else. What
\* escape does to each single character and to each pair of characters does
\* not depend on the run and is checked before the invocation.
C8_TextAndSuffix ==
  /\ ~Invoked =>
       /\ \A c \in ReservedMarkup : escape(<<c>>) = <<"\\", c>>
       /\ \A c \in PlainChars : escape(<<c>>) = <<c>>
       /\ \A c, e \in ReservedMarkup \cup PlainChars :
            escape(<<c, e>>) = escape(<<c>>) \o escape(<<e>>)
  /\ (ValidRun /\ calls.send # <<>>) =>
       LET body == Descriptor.icon \o <<" ">> \o Descriptor.message
           text == calls.send[1]
           suffix == SubSeq(text, Len(body) + 1, Len(text))
       IN /\ Len(text) >= Len(body)
          /\ SubSeq(text, 1, Len(body)) = body
          /\ IF Len(nodes) <= 1 THEN suffix = <<>>
             ELSE IsEscaped(suffix, <<" ", "-", " ">> \o args.from)

\* a text sent for several nodes from a label with a reserved character
C8_Witness ==
  /\ ValidRun /\ Len(calls.send) = 1
  /\ Len(nodes) > 1
  /\ \E k \in 1..Len(args.from) : args.from[k] = "_"
  /\ calls.send[1] =
       Descriptor.icon \o <<" ", "m", ".", " ", "\\", "-", " ", "a", "\\", "_", "1">>

\* ---------------------------------------------------------------------- C9
\* C9 as stated: in a run that ends in rejection no text message has been
\* sent successfully.
C9_NoTextOnReject == Rejected => sendState # "ok"

\* C9 amended: in a run that ends in rejection either no text message has
\* been sent successfully, or the text was sent and the rejection is the
\* failure of the quiz call that followed it.
C9_TextOnlyBeforeQuizFailure ==
  (Rejected /\ sendState = "ok") =>
    /\ quizState = "failed"
    /\ outcomes[1][2] = <<503, "quizError">>
    /\ Len(calls.send) = 1 /\ Len(calls.quiz) = 1

\* a rejected run whose text was sent and whose quiz call failed
C9_Witness == Rejected /\ sendState = "ok" /\ quizState = "failed"

\* --------------------------------------------------------------------- C10
\* nothing is in flight: no collaborator call or subscription is pending
Quiescent ==
  /\ Invoked
  /\ \A i \in DOMAIN lookup : lookup[i] \in {"done", "failed"}
  /\ psub # "open"
  /\ \A j \in DOMAIN tsub : tsub[j] = "closed"
  /\ \A t \in {"details", "post", "quiz"} : status[t] # "running"

\* C10: resolve or reject is called at most once in every state of every
\* interleaving, each task's result is delivered at most once, and once
\* nothing is in flight any more the outcome has been settled exactly once.
C10_SettledOnce ==
  /\ Len(outcomes) <= 1
  /\ \A t \in Tasks : writes[t] <= 1
  /\ Quiescent => Len(outcomes) = 1

\* a check completed after the run had been rejected, and the final callback
\* was called again
C10_Witness ==
  /\ Rejected
  /\ finalCalls = 2
  /\ Len(outcomes) = 1
  /\ status["getNodes"] = "failed"
  /\ status["getPayment"] = "done"

\* --------------------------------------------------------------------- C11
\* C11: when invoice.is_confirmed is false, no composer is invoked and
\* neither send nor quiz is called, in any state of any run, whatever the
\* number of controlled nodes and whatever the collaborators answer.
C11_UnconfirmedSilent ==
  (ValidRun /\ ~invoice.is_confirmed) =>
    /\ calls.compose = <<>>
    /\ NoDispatchCalls
    /\ ~HasDescriptor

\* a resolved run of an unconfirmed invoice with two controlled nodes whose
\* channel lookups were answered
C11_Witness ==
  /\ ValidRun /\ ~invoice.is_confirmed
  /\ Len(nodes) = 2
  /\ status["getNodes"] = "done" /\ Len(results["getNodes"][1]) = 2
  /\ status["quiz"] = "done"
  /\ Resolved

\* --------------------------------------------------------------------- C12
\* the position of the first payment that came through channel c
FirstPayment(c) ==
  CHOOSE k \in 1..Len(invoice.payments) :
    /\ invoice.payments[k] = c
    /\ \A j \in 1..(k - 1) : invoice.payments[j] # c

\* the in_channel values of the payments
PaymentChannels == {invoice.payments[k] : k \in 1..Len(invoice.payments)}

\* the channel an entry of via stands for
ChannelOf(entry) == entry.id[2]

\* C12: for a confirmed invoice classified as Received, the via list handed
\* to the received composer has exactly one entry per distinct in_channel of
\* invoice.payments, in the order of first occurrence in payments, whatever
\* order the lookups and alias resolutions completed in; and each distinct
\* channel is looked up exactly once.
C12_ViaPerChannel ==
  /\ (ValidRun /\ Started("getNodes")) =>
       /\ Len(calls.getChannel) = Cardinality(PaymentChannels)
       /\ \A c \in PaymentChannels :
            Cardinality({k \in 1..Len(calls.getChannel) : calls.getChannel[k] = c}) = 1
  /\ (ValidRun /\ Composers = <<"getReceivedMessage">>) =>
       LET via == calls.compose[1].facts[1]
       IN /\ Len(via) = Cardinality(PaymentChannels)
          /\ \A c \in PaymentChannels :
               Cardinality({k \in 1..Len(via) : ChannelOf(via[k]) = c}) = 1
          /\ \A a, b \in 1..Len(via) :
               a < b => FirstPayment(ChannelOf(via[a])) < FirstPayment(ChannelOf(via[b]))

\* a received message for payments through 61x2 and then 61x1, the first
\* resolved to an alias and the second fallen back to its id
C12_Witness ==
  /\ ValidRun /\ Composers = <<"getReceivedMessage">>
  /\ invoice.payments = <<"61x2", "61x1">>
  /\ calls.compose[1].facts[1] =
       <<[id |-> <<"peer", "61x2">>, alias |-> <<"alias", "61x2">>],
         [id |-> <<"channel", "61x1">>, alias |-> <<"channel", "61x1">>]>>

\* --------------------------------------------------------------------- C13
\* C13: when invoice.is_confirmed is false, no channel lookup, no alias
\* resolution and no past-payment subscription is issued in the run.
C13_UnconfirmedNoNetwork ==
  (ValidRun /\ ~invoice.is_confirmed) => NoNetworkCalls

\* --------------------------------------------------------------------- C14
\* the error an alias resolution fails with
AliasError == <<503, "getNodeAliasError">>

\* C14: no failure inside the resolution of a channel, of the channel lookup
\* or of the alias resolution, ever fails getNodes or rejects the pipeline.
C14_NoLookupFailurePropagates ==
  ValidRun => status["getNodes"] # "failed" /\ ~(Rejected /\ outcomes[1][2] = AliasError)

\* --------------------------------------------------------------------- C15
\* every past-payment subscription of the run has ended without a confirmed
\* event: the rebalance probe and every transfer probe
AllProbesAbsent ==
  /\ psub = "closed" /\ results["getPayment"] = None
  /\ status["getTransfer"] # "waiting"
  /\ \A j \in DOMAIN tsub : tsub[j] = "closed"
  /\ testResult = None

\* C15: an error or failed event of a past-payment subscription never fails
\* its check and never rejects the pipeline: the check completes as absent.
\* For a confirmed invoice without a balanced open proposal whose probes all
\* ended in error or failed, both checks are done with an absent result, the
\* composer the classification invokes is the received one, and its
\* descriptor's text is sent.
C15_ProbeFailureIsAbsence ==
  ValidRun =>
    /\ status["getPayment"] # "failed" /\ status["getTransfer"] # "failed"
    /\ (invoice.is_confirmed /\ ~invoice.proposal /\ AllProbesAbsent) =>
         /\ status["getPayment"] = "done" /\ status["getTransfer"] = "done"
         /\ results["getTransfer"] = None
         /\ Started("details") => Composers = <<"getReceivedMessage">>
         /\ HasDescriptor =>
              /\ Len(calls.send) = 1
              /\ calls.send[1] = postText(Descriptor)

\* the received text went out after the rebalance probe and the transfer
\* probe on the other node both ended in error or failed
C15_Witness ==
  /\ ValidRun /\ invoice.is_confirmed /\ ~invoice.proposal
  /\ nodes = <<"K", "O">>
  /\ Len(calls.subscribe) = 2
  /\ AllProbesAbsent
  /\ Composers = <<"getReceivedMessage">>
  /\ sendState = "ok"
  /\ Resolved

\* --------------------------------------------------------------------- C16
\* a subscription the transfer check opened
IsTransferSub(c) == c.by = "getTransfer"

\* the nodes the transfer check subscribed on, in the order of the calls
TransferSubs == SelectSeq(calls.subscribe, IsTransferSub)

\* the positions in nodes of the controlled nodes other than the receiving one
OtherPositions == {k \in 1..Len(nodes) : nodes[k] # args.key}

\* C16: the transfer check of a confirmed invoice opens one subscription per
\* controlled node whose public key differs from the receiving key and none
\* on the receiving node; it has completed exactly when one of them has
\* confirmed or all of them have ended, with a present result exactly when
\* one confirmed, so that a first confirmation completes it while other
\* subscriptions are still open; its result is never the receiving node.
C16_TransferDetect ==
  ValidRun =>
    /\ ~invoice.is_confirmed => TransferSubs = <<>>
    /\ (invoice.is_confirmed /\ Started("getTransfer")) =>
         /\ Len(TransferSubs) = Cardinality(OtherPositions)
         /\ \A k \in 1..Len(TransferSubs) : TransferSubs[k].node # args.key
         /\ DOMAIN tsub = 1..Cardinality(OtherPositions)
         /\ status["getTransfer"] = "done" <=>
              (IsSome(testResult) \/ \A j \in DOMAIN tsub : tsub[j] = "closed")
         /\ status["getTransfer"] = "done" =>
              (IsSome(results["getTransfer"]) <=> IsSome(testResult))
         /\ IsSome(testResult) => \E j \in DOMAIN tsub : tsub[j] = "closed"
         /\ IsSome(results["getTransfer"]) => results["getTransfer"][1] # args.key
         /\ OtherPositions = {} => results["getTransfer"] = None

\* with two other nodes, the check has completed as a transfer on the first
\* confirmation while the second subscription is still open
C16_Witness ==
  /\ ValidRun /\ invoice.is_confirmed
  /\ nodes = <<"O", "O">>
  /\ status["getTransfer"] = "done" /\ IsSome(results["getTransfer"])
  /\ \E j \in DOMAIN tsub : tsub[j] = "open"

\* --------------------------------------------------------------------- C17
\* C17: whenever a composer has been invoked, all four checks have
\* completed, and whenever send has been called, the composer has returned
\* its descriptor; while a check is still pending nothing is composed or
\* dispatched, whatever the other checks have found.
C17_ComposeAfterChecks ==
  ValidRun =>
    /\ calls.compose # <<>> => \A c \in Checks : status[c] = "done"
    /\ calls.send # <<>> => (status["details"] = "done" /\ HasDescriptor)
    /\ (\E c \in Checks : status[c] # "done") =>
         (calls.compose = <<>> /\ NoDispatchCalls /\ status["details"] = "waiting")

\* a proposal is known and the transfer probe has ended, the rebalance probe
\* and an alias resolution are still pending, and nothing is composed
C17_Witness ==
  /\ ValidRun /\ invoice.is_confirmed
  /\ IsSome(results["balancedOpen"])
  /\ status["getTransfer"] = "done"
  /\ psub = "open"
  /\ \E i \in DOMAIN lookup : lookup[i] = "getNodeAlias"
  /\ calls.compose = <<>> /\ NoDispatchCalls

\* --------------------------------------------------------------------- C18
\* the error a failed send rejects with
SendError == <<503, "sendError">>

\* C18: send and quiz are each called at most once per run; once the send
\* call has failed the pipeline has rejected with the send error, the quiz
\* task has not started and quiz has not been called.
C18_SendFailureStops ==
  ValidRun =>
    /\ Len(calls.send) <= 1 /\ Len(calls.quiz) <= 1
    /\ sendState = "failed" =>
         /\ Rejected /\ outcomes[1][2] = SendError
         /\ status["post"] = "failed"
         /\ status["quiz"] = "waiting" /\ calls.quiz = <<>>
         /\ Len(calls.send) = 1

\* the send of a text whose descriptor carries a quiz of valid length failed
C18_Witness ==
  /\ ValidRun /\ sendState = "failed"
  /\ HasDescriptor /\ QuizInRange(Descriptor)
  /\ Rejected /\ calls.quiz = <<>>

\* --------------------------------------------------------------------- C19
\* the error a failed composer rejects with
ComposerError == <<503, "composerError">>

\* C19: of the four checks only getNodes can fail; once it has, the pipeline
\* has rejected with its error and no composer, send or quiz call is made,
\* also after the checks still in flight have completed; once the composer
\* has failed, the pipeline has rejected with its error and no send or quiz
\* call is made.  A rejection with one of these errors is the failure of
\* that step.
C19_FailureStops ==
  ValidRun =>
    /\ \A c \in Checks \ {"getNodes"} : status[c] # "failed"
    /\ status["getNodes"] = "failed" =>
         /\ Rejected /\ outcomes[1][2] = AliasError
         /\ calls.compose = <<>> /\ NoDispatchCalls
         /\ \A t \in {"details", "post", "quiz"} : status[t] = "waiting"
    /\ status["details"] = "failed" =>
         /\ Rejected /\ outcomes[1][2] = ComposerError
         /\ NoDispatchCalls
         /\ \A t \in {"post", "quiz"} : status[t] = "waiting"
    /\ (Rejected /\ outcomes[1][2] = AliasError) =>
         (status["getNodes"] = "failed" /\ NoDispatchCalls)
    /\ (Rejected /\ outcomes[1][2] = ComposerError) =>
         (status["details"] = "failed" /\ NoDispatchCalls)

\* getNodes failed while both probes were in flight; they have since
\* completed, the rebalance probe with a payment, and nothing was dispatched
C19_Witness ==
  /\ ValidRun /\ invoice.is_confirmed
  /\ status["getNodes"] = "failed"
  /\ status["getPayment"] = "done" /\ IsSome(results["getPayment"])
  /\ status["getTransfer"] = "done" /\ Len(calls.subscribe) = 2
  /\ finalCalls = 2
  /\ Rejected /\ NoDispatchCalls

\* --------------------------------------------------------------------- C20
\* a collaborator call is in flight or a subscription is open: the
\* environment owes the pipeline an answer
Pending ==
  \/ \E i \in DOMAIN lookup : lookup[i] \in {"getChannel", "getNodeAlias"}
  \/ psub = "open"
  \/ \E j \in DOMAIN tsub : tsub[j] = "open"
  \/ \E t \in {"details", "post", "quiz"} : status[t] = "running"

\* the answers a task can still wait for: it may start and then return
TaskRank(t) ==
  CASE status[t] = "waiting" -> 2
    [] status[t] = "running" -> 1
    [] OTHER -> 0

\* the answers the run can still wait for
Rank ==
  IF ~Invoked THEN 2 * Cardinality(Channels) + MaxNodes + 8
  ELSE 2 * Cardinality({i \in DOMAIN lookup : lookup[i] = "getChannel"})
       + Cardinality({i \in DOMAIN lookup : lookup[i] = "getNodeAlias"})
       + (IF psub = "open" THEN 1 ELSE 0)
       + Cardinality({j \in DOMAIN tsub : tsub[j] = "open"})
       + TaskRank("details") + TaskRank("post") + TaskRank("quiz")

\* C20: with valid arguments, a run that has neither resolved nor rejected
\* always has an answer pending, and every step of the pipeline is the
\* arrival of one answer and lowers the number of answers the run can still
\* wait for, so a run whose collaborators always answer resolves or rejects
\* after finitely many steps; and the pipeline settles on its own account at
\* no time: while a past-payment probe is pending and no step has failed, it
\* is neither resolved nor rejected.
C20_EventuallySettles ==
  /\ [](ValidRun /\ outcomes = <<>> => Pending)
  /\ [][Rank' < Rank]_vars
  /\ [](ValidRun /\ ~hasError /\ (psub = "open" \/ status["getTransfer"] = "running")
          => outcomes = <<>>)

\* a run that resolved after the terminal events of three subscriptions and
\* the completions of the composer, the send and the quiz
C20_Witness ==
  /\ ValidRun /\ invoice.is_confirmed
  /\ Len(calls.subscribe) = 3
  /\ psub = "closed" /\ \A j \in DOMAIN tsub : tsub[j] = "closed"
  /\ sendState = "ok" /\ quizState = "ok"
  /\ Resolved

====
